---- MODULE Spec2Model ----
(***************************************************************************)
(* A model of the backtracking regular-expression engine:                  *)
(*   regex/parser.rs  Parser::compile   pattern -> instruction sequence     *)
(*   regex/ir.rs      Inst, Inst::is_match                                  *)
(*   regex/input.rs   Text (byte-offset cursor over UTF-8 text)             *)
(*   regex/vm.rs      VM::run (recursive backtracking interpreter)          *)
(*   regex.rs         Regex::is_match (the search driver)                   *)
(*                                                                         *)
(* Characters are one-character strings.  A pattern and a text are          *)
(* sequences of characters.  Text offsets are BYTE offsets, as in the       *)
(* source: a character occupies Width(c) bytes.                             *)
(*                                                                         *)
(* The parser is a deterministic function of the pattern and is modelled    *)
(* as operators that thread the parser state.  The VM is recursive and      *)
(* mutates its capture table, so it is modelled as a machine: the           *)
(* recursion stack of VM::run is the variable stack, one frame per call.    *)
(* A panic of the Rust code (todo!(), slice out of range, index out of      *)
(* range) is the outcome "panic".                                           *)
(***************************************************************************)
EXTENDS Integers, Sequences, FiniteSets, TLC

(***************************************************************************)
(* Characters                                                              *)
(***************************************************************************)
Digits == {"0", "1", "2", "3", "4", "5", "6", "7", "8", "9"}

Lower == {"a", "b", "c", "d", "e", "f", "g", "h", "i", "j", "k", "l", "m",
          "n", "o", "p", "q", "r", "s", "t", "u", "v", "w", "x", "y", "z"}

Upper == {"A", "B", "C", "D", "E", "F", "G", "H", "I", "J", "K", "L", "M",
          "N", "O", "P", "Q", "R", "S", "T", "U", "V", "W", "X", "Y", "Z"}

\* The ASCII alphanumerics in code-point order (digits < upper < lower).
AsciiOrder == <<"0", "1", "2", "3", "4", "5", "6", "7", "8", "9",
                "A", "B", "C", "D", "E", "F", "G", "H", "I", "J", "K", "L", "M",
                "N", "O", "P", "Q", "R", "S", "T", "U", "V", "W", "X", "Y", "Z",
                "a", "b", "c", "d", "e", "f", "g", "h", "i", "j", "k", "l", "m",
                "n", "o", "p", "q", "r", "s", "t", "u", "v", "w", "x", "y", "z">>

\* The non-ASCII characters of the model: a two-byte letter and a two-byte
\* sign (neither is an ASCII character, only the first is alphanumeric).
TwoByteLetter == "é"

TwoByteSign == "÷"

NonAscii == {TwoByteLetter, TwoByteSign}

\* char::len_utf8
Width(c) == IF c \in NonAscii THEN 2 ELSE 1

is_ascii_alphanumeric(c) == c \in Digits \cup Lower \cup Upper

\* char::is_alphanumeric (Unicode)
is_alphanumeric(c) == is_ascii_alphanumeric(c) \/ c = TwoByteLetter

\* char::is_digit(10)
is_digit(c) == c \in Digits

\* The characters parse_atom turns into Inst::Char.
LiteralChars == Lower \cup Upper \cup Digits \cup
                {",", "<", ">", ":", " ", "-", "_", "\"", "'"}

\* Option<char>::None
None == ""

(***************************************************************************)
(* Sequences                                                               *)
(***************************************************************************)
RECURSIVE SeqsUpTo(_, _)
\* All sequences over S of length 0..n.
SeqsUpTo(S, n) ==
    IF n = 0 THEN {<<>>}
    ELSE LET shorter == SeqsUpTo(S, n - 1)
         IN  shorter \cup {Append(s, c) : s \in {t \in shorter : Len(t) = n - 1}, c \in S}

\* n copies of block, concatenated (extend_from_slice in a for loop).
Repeat(block, n) ==
    IF n <= 0 THEN <<>>
    ELSE [i \in 1..(n * Len(block)) |-> block[((i - 1) % Len(block)) + 1]]

DropFirst(s, n) == SubSeq(s, n + 1, Len(s))

(***************************************************************************)
(* Instructions (regex/ir.rs)                                              *)
(***************************************************************************)
Mk(op) == [op |-> op, c |-> "", x |-> 0, y |-> 0, neg |-> FALSE, set |-> {}]

InstChar(ch) == [Mk("Char") EXCEPT !.c = ch]

InstAnyChar == Mk("AnyChar")

InstStart == Mk("Start")

InstEnd == Mk("End")

InstMatch == Mk("Match")

InstJump(off) == [Mk("Jump") EXCEPT !.x = off]

InstSplit(o1, o2) == [Mk("Split") EXCEPT !.x = o1, !.y = o2]

InstCharClass(negated, chars) == [Mk("CharClass") EXCEPT !.neg = negated, !.set = chars]

InstDigit == Mk("Digit")

InstMetaChar == Mk("MetaChar")

InstGroupBegin(n) == [Mk("GroupBegin") EXCEPT !.x = n]

InstGroupEnd(n) == [Mk("GroupEnd") EXCEPT !.x = n]

InstRef(n) == [Mk("Ref") EXCEPT !.x = n]

\* The CharClass arm of Inst::is_match and of VM::run: membership, or its
\* complement when the class is negated.
ClassAcceptsNoNegation(inst, ch) == ch \in inst.set

ClassAccepts(inst, ch) == IF inst.neg THEN ch \notin inst.set ELSE ch \in inst.set

\* Inst::is_match: the single-character predicate.  The zero-width and group
\* instructions fall into todo!(), the outcome "panic".
Inst_is_match(inst, ch) ==
    CASE inst.op = "Char" -> IF inst.c = ch THEN "true" ELSE "false"
      [] inst.op = "AnyChar" -> "true"
      [] inst.op = "Start" -> "false"
      [] inst.op = "End" -> "false"
      [] inst.op = "Match" -> "true"
      [] inst.op = "Jump" -> "false"
      [] inst.op = "Split" -> "false"
      [] inst.op = "CharClass" -> IF ClassAccepts(inst, ch) THEN "true" ELSE "false"
      [] inst.op = "Digit" -> IF is_digit(ch) THEN "true" ELSE "false"
      [] inst.op = "MetaChar" -> IF is_alphanumeric(ch) \/ ch = "_" THEN "true" ELSE "false"
      [] OTHER -> "panic"

(***************************************************************************)
(* Parser (regex/parser.rs)                                                *)
(*                                                                         *)
(* The parser state is [chars, next_group_num, num_stack]: the remaining    *)
(* pattern characters (the Peekable<Chars>), the next group number and the  *)
(* stack of open group numbers.  Every parse operator returns a result      *)
(* [kind, err, arg, block, ps]: kind is "ok", "err" (a ParseError, named    *)
(* by err, with its character argument arg) or "panic" (todo!()).           *)
(***************************************************************************)
NewParser(pattern) == [chars |-> pattern, next_group_num |-> 1, num_stack |-> <<>>]

POk(ps, block) == [kind |-> "ok", err |-> "", arg |-> "", block |-> block, ps |-> ps]

PErr(ps, e, a) == [kind |-> "err", err |-> e, arg |-> a, block |-> <<>>, ps |-> ps]

PPanic(ps) == [kind |-> "panic", err |-> "", arg |-> "", block |-> <<>>, ps |-> ps]

\* chars.peek()
Peek(ps) == IF ps.chars = <<>> THEN None ELSE Head(ps.chars)

\* chars.next(), the state after it
Advance(ps) == [ps EXCEPT !.chars = Tail(ps.chars)]

\* Parser::next_group_num: hand out the next number and push it.
next_group_num_NoIncrement(ps) ==
    [ps EXCEPT !.num_stack = Append(ps.num_stack, ps.next_group_num)]

next_group_num(ps) ==
    [ps EXCEPT !.next_group_num = ps.next_group_num + 1,
               !.num_stack = Append(ps.num_stack, ps.next_group_num)]

\* Parser::calc_jump_offset
calc_jump_offset(base_pc, target_pc) == target_pc - base_pc

\* Parser::emit_jump_forward
emit_jump_forward(insts) == InstJump(calc_jump_offset(0, Len(insts) + 1))

\* Parser::emit_jump_backward: back to the Split in front of insts.
emit_jump_backward_TooFar(insts) == InstJump(calc_jump_offset(Len(insts), -2))

emit_jump_backward(insts) == InstJump(calc_jump_offset(Len(insts), -1))

\* Parser::emit_split_code
emit_split_code(branch1, branch2) ==
    <<InstSplit(1, calc_jump_offset(0, 0 + Len(branch1) + 1))>> \o branch1 \o branch2

\* Parser::emit_zero_or_more_code
emit_zero_or_more_code(block) ==
    emit_split_code(Append(block, emit_jump_backward(block)), <<>>)

\* Parser::emit_one_or_more_code
emit_one_or_more_code_NoFirstCopy(block) == emit_zero_or_more_code(block)

emit_one_or_more_code(block) == block \o emit_zero_or_more_code(block)

\* Parser::emit_zero_or_one_code
emit_zero_or_one_code(block) == emit_split_code(block, <<>>)

\* Position of an ASCII alphanumeric in code-point order.
OrdOf(ch) == CHOOSE i \in 1..Len(AsciiOrder) : AsciiOrder[i] = ch

\* Parser::translate_range
translate_range(start, end) ==
    LET is_range == /\ OrdOf(start) <= OrdOf(end)
                    /\ \/ start \in Digits /\ end \in Digits
                       \/ start \in Lower /\ end \in Lower
                       \/ start \in Upper /\ end \in Upper
    IN  IF is_range
        THEN {AsciiOrder[i] : i \in OrdOf(start)..OrdOf(end)}
        ELSE {start, "-", end}

RECURSIVE ClassLoop(_, _)
\* The loop of parse_atom's '[' arm over the class members; the result's
\* block is the one CharClass instruction, still with negated = FALSE.
ClassLoop(ps, set) ==
    LET ch == Peek(ps)
        ps1 == Advance(ps)
    IN  CASE ch = None -> PErr(ps, "UnclosedCharClass", "")
          [] ch = "]" -> POk(ps1, <<InstCharClass(FALSE, set)>>)
          [] ch = "\\" ->
               LET e == Peek(ps1)
                   ps2 == Advance(ps1)
               IN  CASE e = None -> PErr(ps1, "IncompletedEscape", "")
                     [] e = "d" -> ClassLoop(ps2, set \cup Digits)
                     [] e = "w" -> ClassLoop(ps2, set \cup {"_"} \cup Digits \cup Lower \cup Upper)
                     [] OTHER -> PErr(ps2, "UnknownEscape", e)
          [] is_ascii_alphanumeric(ch) ->
               IF Peek(ps1) # "-"
               THEN ClassLoop(ps1, set \cup {ch})
               ELSE LET ps2 == Advance(ps1)
                        end == Peek(ps2)
                    IN  IF end # None /\ is_ascii_alphanumeric(end)
                        THEN ClassLoop(Advance(ps2), set \cup translate_range(ch, end))
                        ELSE ClassLoop(ps2, set \cup {"-"})
          [] OTHER -> ClassLoop(ps1, set \cup {ch})

\* The '$' arm of parse_atom: End, which must be the last pattern character.
\* ps1 is the parser state after the '$'.
parse_dollar_Anywhere(ps1) == POk(ps1, <<InstEnd>>)

parse_dollar(ps1) ==
    IF Peek(ps1) # None THEN PErr(ps1, "MisplacedAnchor", "") ELSE POk(ps1, <<InstEnd>>)

\* The '\\' arm of parse_atom: \\d, \\w, an escaped backslash, a back-reference
\* \\1..\\9.  ps1 is the parser state after the backslash.
parse_escape_ZeroIsRef(ps1) ==
    LET e == Peek(ps1)
        ps2 == Advance(ps1)
    IN  CASE e = None -> PErr(ps1, "IncompletedEscape", "")
          [] e = "d" -> POk(ps2, <<InstDigit>>)
          [] e = "w" -> POk(ps2, <<InstMetaChar>>)
          [] e = "\\" -> POk(ps2, <<InstChar("\\")>>)
          [] e \in Digits -> POk(ps2, <<InstRef(OrdOf(e) - 1)>>)
          [] OTHER -> PErr(ps2, "UnknownEscape", e)

parse_escape(ps1) ==
    LET e == Peek(ps1)
        ps2 == Advance(ps1)
    IN  CASE e = None -> PErr(ps1, "IncompletedEscape", "")
          [] e = "d" -> POk(ps2, <<InstDigit>>)
          [] e = "w" -> POk(ps2, <<InstMetaChar>>)
          [] e = "\\" -> POk(ps2, <<InstChar("\\")>>)
          [] e \in Digits \ {"0"} -> POk(ps2, <<InstRef(OrdOf(e) - 1)>>)
          [] OTHER -> PErr(ps2, "UnknownEscape", e)

\* The end of parse_atom's '[' arm: the class read by the loop becomes the
\* CharClass instruction, with the negation seen after the '['.
ClassInst(negated, r) ==
    IF r.kind = "ok" THEN POk(r.ps, <<InstCharClass(negated, r.block[1].set)>>) ELSE r

\* Parser::parse_atom.  It is only called with a character to read.
parse_atom(ps) ==
    LET ch == Peek(ps)
        ps1 == Advance(ps)
    IN  CASE ch = None -> PPanic(ps)
          [] ch = "." -> POk(ps1, <<InstAnyChar>>)
          [] ch \in LiteralChars -> POk(ps1, <<InstChar(ch)>>)
          [] ch = "\\" -> parse_escape(ps1)
          [] ch = "[" ->
               ClassInst(Peek(ps1) = "^",
                         ClassLoop(IF Peek(ps1) = "^" THEN Advance(ps1) ELSE ps1, {}))
          [] ch = "^" -> POk(ps1, <<InstStart>>)
          [] ch = "$" -> parse_dollar(ps1)
          [] OTHER -> PPanic(ps1)

(***************************************************************************)
(* The '{' quantifier of parse_term                                        *)
(***************************************************************************)
RECURSIVE SplitComma(_, _)
\* str::split(","): the pieces between commas (always at least one piece).
SplitComma(s, piece) ==
    IF s = <<>> THEN <<piece>>
    ELSE IF Head(s) = "," THEN <<piece>> \o SplitComma(Tail(s), <<>>)
    ELSE SplitComma(Tail(s), Append(piece, Head(s)))

RECURSIVE DecimalValue(_, _)
\* str::parse::<usize> on a non-empty string of digits.
DecimalValue(s, acc) ==
    IF s = <<>> THEN acc ELSE DecimalValue(Tail(s), 10 * acc + (OrdOf(Head(s)) - 1))

\* usize::MAX, the "no upper bound" value of max (kept symbolic: it is larger
\* than every number a bounded pattern can spell).
Unbounded == -1

RECURSIVE QuantLoop(_, _)
\* The loop reading the body of a '{' quantifier.  The result's block is
\* <<min, max>>.
QuantLoop(ps, digit_buffer) ==
    LET ch == Peek(ps)
    IN  CASE ch \in Digits \cup {","} -> QuantLoop(Advance(ps), Append(digit_buffer, ch))
          [] ch = "}" ->
               LET digits == SplitComma(digit_buffer, <<>>)
                   d1 == digits[1]
               IN  IF d1 = <<>>
                   THEN PErr(Advance(ps), "InvalidQuantifier", "")
                   ELSE LET min == DecimalValue(d1, 0)
                        IN  IF Len(digits) < 2
                            THEN POk(Advance(ps), <<min, min>>)
                            ELSE IF digits[2] = <<>>
                            THEN POk(Advance(ps), <<min, Unbounded>>)
                            ELSE POk(Advance(ps), <<min, DecimalValue(digits[2], 0)>>)
          [] OTHER -> PErr(ps, "InvalidQuantifier", "")

\* The code parse_term emits for block{min,max}: min copies, then max - min
\* optional copies, or a zero-or-more loop when max is unbounded.
RepeatBlock_MinOnly(block, min, max) == Repeat(block, min)

RepeatBlock(block, min, max) ==
    Repeat(block, min) \o
    (IF max = Unbounded THEN emit_zero_or_more_code(block)
     ELSE IF max # min THEN Repeat(emit_zero_or_one_code(block), max - min)
     ELSE <<>>)

\* The '{' quantifier of parse_term once min and max are read (q, with
\* block <<min, max>>): min > max is refused, otherwise the code is emitted.
Braces(q, block) ==
    IF q.kind # "ok" THEN q
    ELSE IF q.block[2] # Unbounded /\ q.block[1] > q.block[2]
    THEN PErr(q.ps, "InvalidQuantifier", "")
    ELSE POk(q.ps, RepeatBlock(block, q.block[1], q.block[2]))

\* The quantifier part of parse_term, applied to the block just parsed.
Quantify(ps, block) ==
    LET ch == Peek(ps)
    IN  CASE ch = "*" -> POk(Advance(ps), emit_zero_or_more_code(block))
          [] ch = "+" -> POk(Advance(ps), emit_one_or_more_code(block))
          [] ch = "?" -> POk(Advance(ps), emit_zero_or_one_code(block))
          [] ch = "{" ->
               Braces(QuantLoop(Advance(ps), <<>>), block)
          [] OTHER -> POk(ps, block)

\* Parser::current_group_num: pop the number of the group being closed.
current_group_num(ps) ==
    IF ps.num_stack = <<>> THEN PErr(ps, "GroupNumMissError", "")
    ELSE POk([ps EXCEPT !.num_stack = SubSeq(ps.num_stack, 1, Len(ps.num_stack) - 1)],
             <<InstGroupEnd(ps.num_stack[Len(ps.num_stack)])>>)

\* The code of a closed group body: the alternation code when a '|' was
\* seen, otherwise the first branch.
GroupBody(real_split, branch1, branch2) ==
    IF real_split
    THEN emit_split_code(Append(branch1, emit_jump_forward(branch2)), branch2)
    ELSE branch1

\* The ')' of parse_term's '(' arm: g is the popped group number (as the
\* GroupEnd instruction) and body the code of the group's branches.
GroupCode(g, num, body) ==
    IF g.kind # "ok" THEN g ELSE POk(g.ps, <<InstGroupBegin(num)>> \o body \o g.block)

RECURSIVE parse_term(_)
RECURSIVE GroupLoop(_, _, _, _, _)
RECURSIVE GroupTerm(_, _, _, _, _)
\* The loop of parse_term's '(' arm, after GroupBegin(num) was emitted.
GroupLoop(ps, num, real_split, branch1, branch2) ==
    CASE Peek(ps) = None -> PErr(ps, "UnclosedGroup", "")
      [] Peek(ps) = "|" -> GroupLoop(Advance(ps), num, TRUE, branch1, branch2)
      [] Peek(ps) = ")" ->
           GroupCode(current_group_num(Advance(ps)), num,
                     GroupBody(real_split, branch1, branch2))
      [] OTHER -> GroupTerm(parse_term(ps), num, real_split, branch1, branch2)

\* The loop's `_` arm: the term parsed (res) goes to the second branch after
\* a '|' and to the first before, and the loop goes on; `?` passes an error on.
GroupTerm(res, num, real_split, branch1, branch2) ==
    IF res.kind # "ok" THEN res
    ELSE IF real_split
    THEN GroupLoop(res.ps, num, real_split, branch1, branch2 \o res.block)
    ELSE GroupLoop(res.ps, num, real_split, branch1 \o res.block, branch2)

\* parse_term's '(' arm: ps1 is the parser after the '(' with the new group
\* number on its stack.
Group(ps1) == GroupLoop(ps1, ps1.num_stack[Len(ps1.num_stack)], FALSE, <<>>, <<>>)

\* parse_term after its group or atom (b): `?` passes an error on, otherwise
\* the quantifier is read.
Quantified(b) == IF b.kind # "ok" THEN b ELSE Quantify(b.ps, b.block)

\* Parser::parse_term: a group or an atom, then an optional quantifier.
parse_term(ps) ==
    Quantified(IF Peek(ps) = "(" THEN Group(next_group_num(Advance(ps))) ELSE parse_atom(ps))

RECURSIVE parse_expr(_, _)
RECURSIVE ExprTerm(_, _)
\* Parser::parse_expr: terms until the pattern is exhausted.
parse_expr(ps, instrs) ==
    IF Peek(ps) = None THEN POk(ps, instrs) ELSE ExprTerm(parse_term(ps), instrs)

\* The body of parse_expr's loop: instrs.extend(self.parse_term()?).
ExprTerm(t, instrs) ==
    IF t.kind # "ok" THEN t ELSE parse_expr(t.ps, instrs \o t.block)

\* The end of Parser::compile: the final Match after the parsed instructions.
WithMatch(r) == IF r.kind # "ok" THEN r ELSE POk(r.ps, Append(r.block, InstMatch))

\* Parser::compile: the parsed instructions and the final Match.
compile(pattern) == WithMatch(parse_expr(NewParser(pattern), <<>>))

(***************************************************************************)
(* Text cursor (regex/input.rs)                                            *)
(***************************************************************************)
RECURSIVE ByteLen(_)
\* str::len of a sequence of characters: its length in bytes.
ByteLen(s) == IF s = <<>> THEN 0 ELSE Width(Head(s)) + ByteLen(Tail(s))

\* str::is_char_boundary: offset 0, the end, or the first byte of a character.
IsBoundary(t, index) == \E i \in 0..Len(t) : ByteLen(SubSeq(t, 1, i)) = index

\* The number of characters before a boundary offset.
CharsBefore(t, index) == CHOOSE i \in 0..Len(t) : ByteLen(SubSeq(t, 1, i)) = index

\* Text::char_at: get(index..)?.chars().next()
char_at(t, index) ==
    IF IsBoundary(t, index) /\ CharsBefore(t, index) < Len(t)
    THEN t[CharsBefore(t, index) + 1]
    ELSE None

\* Text::matchwith_at
matchwith_at(t, index, ch) == char_at(t, index) # None /\ char_at(t, index) = ch

\* Text::is_end
is_end(t, index) == ~IsBoundary(t, index) \/ CharsBefore(t, index) = Len(t)

\* Text::next_cursor_unsafe, called only where char_at is some character.
next_cursor_unsafe(t, current_cursor) == current_cursor + Width(char_at(t, current_cursor))

\* &text[a..b] is a valid slice (otherwise the slicing panics).
SliceOk(t, a, b) == a <= b /\ IsBoundary(t, a) /\ IsBoundary(t, b)

\* &text[a..b] for a valid slice, as characters.
Slice(t, a, b) == SubSeq(t, CharsBefore(t, a) + 1, CharsBefore(t, b))

\* str::starts_with
starts_with(s, prefix) == Len(prefix) <= Len(s) /\ SubSeq(s, 1, Len(prefix)) = prefix

(***************************************************************************)
(* State                                                                   *)
(***************************************************************************)
VARIABLES
    jobs,         \* the patterns to compile and match, in order, on the same text
    text,         \* the text handed to is_match
    cur,          \* the index of the pattern being processed
    phase,        \* "compile", "dispatch" (is_match's loop head), "run", "done"
    prog,         \* the instruction sequence compile returned for jobs[cur]
    text_cursor,  \* is_match's text_cursor: the suffix the current run sees
    stack,        \* the recursion stack of VM::run: frames [pc, cursor, st]
    ret,          \* the value a finished call returns to its caller, or "none"
    capatured,    \* VM::capatured: the capture table, a sequence of <<start, end>>
    results       \* per finished pattern: [out, arg]

vars == <<jobs, text, cur, phase, prog, text_cursor, stack, ret, capatured, results>>

\* The recursion depth at which the native stack is exhausted.
MaxDepth == 40

Frame(pc, cursor) == [pc |-> pc, cursor |-> cursor, st |-> "enter"]

InitWith(J, T) ==
    /\ jobs \in J
    /\ text \in T
    /\ cur = 1
    /\ phase = "compile"
    /\ prog = <<>>
    /\ text_cursor = <<>>
    /\ stack = <<>>
    /\ ret = "none"
    /\ capatured = <<>>
    /\ results = <<>>

\* One pattern is finished with outcome out: go on to the next one, if any.
Finish(out, arg) ==
    /\ results' = Append(results, [out |-> out, arg |-> arg])
    /\ stack' = <<>>
    /\ ret' = "none"
    /\ capatured' = <<>>
    /\ IF cur < Len(jobs)
       THEN cur' = cur + 1 /\ phase' = "compile"
       ELSE cur' = cur /\ phase' = "done"

(***************************************************************************)
(* Regex::new: compile the pattern (Parser::new(pattern).compile())        *)
(***************************************************************************)
\* r is what compile returned: the program is kept for is_match, an error or
\* an abort ends the pattern.
Loaded(r) ==
    IF r.kind = "ok"
    THEN /\ prog' = r.block
         /\ phase' = "dispatch"
         /\ text_cursor' = text
         /\ UNCHANGED <<cur, stack, ret, capatured, results>>
    ELSE /\ prog' = <<>>
         /\ text_cursor' = <<>>
         /\ Finish(IF r.kind = "panic" THEN "compile_panic" ELSE r.err, r.arg)

Compile ==
    /\ phase = "compile"
    /\ Loaded(compile(jobs[cur]))
    /\ UNCHANGED <<jobs, text>>

(***************************************************************************)
(* The VM (regex/vm.rs)                                                    *)
(***************************************************************************)
\* VM::save_context
save_context(cap, cursor) == Append(cap, <<cursor, 0>>)

\* VM::fill_back
fill_back(cap, group_num, end) ==
    IF group_num - 1 < Len(cap)
    THEN [cap EXCEPT ![group_num] = <<cap[group_num][1], end>>]
    ELSE cap

\* VM::restore_context without the reset of the end offset.
restore_context_Keep(cap, group_num) == cap

\* VM::restore_context
restore_context(cap, group_num) ==
    IF group_num - 1 < Len(cap)
    THEN [cap EXCEPT ![group_num] = <<cap[group_num][1], 0>>]
    ELSE cap

\* VM::jump_by
jump_by(pc, offset) == pc + offset

\* What one call of VM::run does before it recurses or returns:
\*   [act |-> "call", pc, cursor, cap]  recurse into run(pc, text, cursor)
\*   [act |-> "ret", val, cap]          return val
\*   [act |-> "panic"]                  the call panics
Call(pc, cursor, cap) == [act |-> "call", pc |-> pc, cursor |-> cursor, val |-> FALSE, cap |-> cap]

Return(val, cap) == [act |-> "ret", pc |-> 0, cursor |-> 0, val |-> val, cap |-> cap]

Panic == [act |-> "panic", pc |-> 0, cursor |-> 0, val |-> FALSE, cap |-> <<>>]

\* The Inst::Ref arm of VM::run.
ExecRef(inst, pc, t, cursor, cap) ==
    IF inst.x - 1 < Len(cap)
    THEN LET start == cap[inst.x][1]
             end == cap[inst.x][2]
         IN  IF ~SliceOk(t, cursor, ByteLen(t)) \/ ~SliceOk(t, start, end)
             THEN Panic
             ELSE LET rest == Slice(t, cursor, ByteLen(t))
                      capatured_group == Slice(t, start, end)
                  IN  IF starts_with(rest, capatured_group)
                      THEN Call(pc + 1, cursor + Len(capatured_group), cap)
                      ELSE Return(FALSE, cap)
    ELSE Return(FALSE, cap)

\* The arms of VM::run that test one character and advance past it.
ExecConsume(accepts, pc, t, cursor, cap) ==
    IF char_at(t, cursor) # None /\ accepts
    THEN Call(pc + 1, next_cursor_unsafe(t, cursor), cap)
    ELSE Return(FALSE, cap)

\* VM::run, up to its first recursive call.
Exec(inst, pc, t, cursor, cap) ==
    CASE inst.op = "Char" -> ExecConsume(matchwith_at(t, cursor, inst.c), pc, t, cursor, cap)
      [] inst.op = "AnyChar" -> ExecConsume(TRUE, pc, t, cursor, cap)
      [] inst.op = "Start" -> Return(cursor = 0, cap)
      [] inst.op = "End" -> Return(char_at(t, cursor) = None, cap)
      [] inst.op = "Match" -> Return(TRUE, cap)
      [] inst.op = "Jump" -> Call(jump_by(pc, inst.x), cursor, cap)
      [] inst.op = "Split" -> Call(jump_by(pc, inst.x), cursor, cap)
      [] inst.op = "CharClass" ->
           ExecConsume(ClassAccepts(inst, char_at(t, cursor)), pc, t, cursor, cap)
      [] inst.op = "Digit" -> ExecConsume(is_digit(char_at(t, cursor)), pc, t, cursor, cap)
      [] inst.op = "MetaChar" ->
           ExecConsume(is_alphanumeric(char_at(t, cursor)) \/ char_at(t, cursor) = "_",
                       pc, t, cursor, cap)
      [] inst.op = "GroupBegin" -> Call(pc + 1, cursor, save_context(cap, cursor))
      [] inst.op = "GroupEnd" -> Call(pc + 1, cursor, fill_back(cap, inst.x, cursor))
      [] inst.op = "Ref" -> ExecRef(inst, pc, t, cursor, cap)
      [] OTHER -> Panic

Top == stack[Len(stack)]

Pop == SubSeq(stack, 1, Len(stack) - 1)

BoolStr(b) == IF b THEN "true" ELSE "false"

\* The effect e of the innermost call on the call stack and the capture table.
Effect(e) ==
    CASE e.act = "panic" -> Finish("panic", "")
      [] e.act = "ret" ->
           /\ stack' = Pop
           /\ ret' = BoolStr(e.val)
           /\ capatured' = e.cap
           /\ UNCHANGED <<cur, phase, results>>
      [] e.act = "call" ->
           IF Len(stack) >= MaxDepth
           THEN Finish("overflow", "")
           ELSE /\ stack' = Append([stack EXCEPT ![Len(stack)].st = "first"],
                                   Frame(e.pc, e.cursor))
                /\ capatured' = e.cap
                /\ UNCHANGED <<cur, phase, ret, results>>

\* A call of VM::run begins: it indexes the instruction (a panic when pc is
\* out of range) and executes it up to its first recursive call or its
\* return.  A call beyond MaxDepth exhausts the native stack.
VMStep ==
    /\ phase = "run"
    /\ ret = "none"
    /\ stack # <<>>
    /\ Top.st = "enter"
    /\ UNCHANGED <<jobs, text, prog, text_cursor>>
    /\ IF Top.pc < 0 \/ Top.pc >= Len(prog)
       THEN Finish("panic", "")
       ELSE Effect(Exec(prog[Top.pc + 1], Top.pc, text_cursor, Top.cursor, capatured))

\* A call returned to the call of VM::run that made it.  Split tries its
\* second target after a failed first one; GroupEnd reopens its group after
\* a failed continuation; every other instruction returns the value as it is.
VMReturn ==
    /\ phase = "run"
    /\ ret # "none"
    /\ stack # <<>>
    /\ UNCHANGED <<jobs, text, prog, text_cursor, cur, phase, results>>
    /\ LET inst == prog[Top.pc + 1]
       IN  CASE inst.op = "Split" /\ Top.st = "first" /\ ret = "false" ->
                  /\ stack' = Append([stack EXCEPT ![Len(stack)].st = "second"],
                                     Frame(jump_by(Top.pc, inst.y), Top.cursor))
                  /\ ret' = "none"
                  /\ UNCHANGED capatured
             [] inst.op = "GroupEnd" /\ ret = "false" ->
                  /\ stack' = Pop
                  /\ capatured' = restore_context(capatured, inst.x)
                  /\ UNCHANGED ret
             [] OTHER ->
                  /\ stack' = Pop
                  /\ UNCHANGED <<ret, capatured>>

(***************************************************************************)
(* Regex::is_match (regex.rs): the search driver.  Each run is a call of    *)
(* VM::run on a new VM at the start of the text it is handed.               *)
(***************************************************************************)
\* Begin run(pc, text_cursor) on a new VM.
StartRun(pc) ==
    /\ phase' = "run"
    /\ stack' = <<Frame(pc, 0)>>
    /\ ret' = "none"
    /\ capatured' = <<>>
    /\ UNCHANGED <<cur, results, text_cursor>>

\* The step of is_match's search loop: drop the first character.
NextSuffix_All(tc) == <<>>

NextSuffix(tc) == IF tc = <<>> THEN <<>> ELSE Tail(tc)

\* is_match's match on instrs.get(0), and the head of its while loop.
IsMatch ==
    /\ phase = "dispatch"
    /\ UNCHANGED <<jobs, text, prog>>
    /\ IF prog = <<>>
       THEN Finish("true", "") /\ UNCHANGED text_cursor
       ELSE IF prog[1].op = "Start"
       THEN StartRun(1)
       ELSE IF text_cursor # <<>>
       THEN StartRun(0)
       ELSE Finish("false", "") /\ UNCHANGED text_cursor

\* The outermost call of run returned to is_match.
RunDone_SearchAnchored ==
    /\ phase = "run"
    /\ ret # "none"
    /\ stack = <<>>
    /\ UNCHANGED <<jobs, text, prog>>
    /\ IF ret = "true"
       THEN Finish(ret, "") /\ UNCHANGED text_cursor
       ELSE /\ text_cursor' = NextSuffix(text_cursor)
            /\ phase' = "dispatch"
            /\ stack' = <<>>
            /\ ret' = "none"
            /\ capatured' = <<>>
            /\ UNCHANGED <<cur, results>>

RunDone ==
    /\ phase = "run"
    /\ ret # "none"
    /\ stack = <<>>
    /\ UNCHANGED <<jobs, text, prog>>
    /\ IF prog[1].op = "Start" \/ ret = "true"
       THEN Finish(ret, "") /\ UNCHANGED text_cursor
       ELSE /\ text_cursor' = NextSuffix(text_cursor)
            /\ phase' = "dispatch"
            /\ stack' = <<>>
            /\ ret' = "none"
            /\ capatured' = <<>>
            /\ UNCHANGED <<cur, results>>

Next == Compile \/ IsMatch \/ VMStep \/ VMReturn \/ RunDone

(***************************************************************************)
(* Inputs.  Every specification runs the same machine; they differ in the  *)
(* patterns and texts they draw.                                           *)
(***************************************************************************)
MaxLitLen == 2

MaxTextLen == 3

LitAlphabet == {"a", "b"}

TextAlphabet == {"a", "b", TwoByteLetter}

Texts == SeqsUpTo(TextAlphabet, MaxTextLen)

\* Non-empty literal strings.
Literals == SeqsUpTo(LitAlphabet, MaxLitLen) \ {<<>>}

\* L occurs in t as a contiguous substring.
Occurs(L, t) == \E i \in 0..(Len(t) - Len(L)) : SubSeq(t, i + 1, i + Len(L)) = L

IsLiteral(p) == p # <<>> /\ \A i \in 1..Len(p) : p[i] \in LiteralChars

\* ^L$ for a non-empty literal L
IsAnchoredLiteral(p) ==
    /\ Len(p) >= 3
    /\ p[1] = "^"
    /\ p[Len(p)] = "$"
    /\ IsLiteral(SubSeq(p, 2, Len(p) - 1))

Done == phase = "done"

\* Literal patterns L and anchored literal patterns ^L$, on every text.
Init ==
    InitWith({<<L>> : L \in Literals} \cup {<<(<<"^">> \o L \o <<"$">>)>> : L \in Literals},
             Texts)

Spec == Init /\ [][Next]_vars

C2_AnchoredLiteralIsEquality ==
    (Done /\ IsAnchoredLiteral(jobs[1])) =>
        /\ results[1].out \in {"true", "false"}
        /\ results[1].out = "true" <=> text = SubSeq(jobs[1], 2, Len(jobs[1]) - 1)

\* ^ab$ accepts "ab".
C2_Witness ==
    /\ Done
    /\ jobs[1] = <<"^", "a", "b", "$">>
    /\ text = <<"a", "b">>
    /\ results[1].out = "true"

(***************************************************************************)
(* X*Y                                                                     *)
(***************************************************************************)
\* Single-character atoms: a literal, the wildcard, a class, \w.
StarAtoms == {<<"a">>, <<".">>, <<"[", "a", "b", "]">>, <<"\\", "w">>}

InitStar ==
    InitWith({<<(X \o <<"*">> \o Y)>> : X \in StarAtoms, Y \in SeqsUpTo(LitAlphabet, MaxLitLen)},
             Texts)

SpecStar == InitStar /\ [][Next]_vars

\* The position of the first '*' of a pattern.
StarAt(p) == CHOOSE i \in 1..Len(p) : p[i] = "*" /\ \A j \in 1..(i - 1) : p[j] # "*"

\* t contains k characters accepted by the atom X followed by Y, for some k >= 0.
ContainsStarMatch(X, Y, t) ==
    LET xinst == compile(X).block[1]
    IN  \E i \in 0..Len(t) : \E k \in 0..(Len(t) - i) :
            /\ \A j \in (i + 1)..(i + k) : Inst_is_match(xinst, t[j]) = "true"
            /\ starts_with(DropFirst(t, i + k), Y)

StarHolds ==
    LET p == jobs[1]
        X == SubSeq(p, 1, StarAt(p) - 1)
        Y == DropFirst(p, StarAt(p))
    IN  /\ results[1].out \in {"true", "false"}
        /\ results[1].out = "true" <=> ContainsStarMatch(X, Y, text)

\* C3: X*Y matches a text exactly when the text contains k characters
\* accepted by X followed by Y, for some k >= 0.
C3_StarMatchesEveryRepetitionCount == Done => StarHolds

\* The same, for a non-empty Y or a non-empty text (every case but the empty
\* pattern tail on the empty text).
C3_StarOnNonEmpty == (Done /\ (text # <<>> \/ jobs[1][Len(jobs[1])] # "*")) => StarHolds

\* a*ab on "aab": the loop gives back one 'a'.
C3_Witness ==
    /\ Done
    /\ jobs[1] = <<"a", "*", "a", "b">>
    /\ text = <<"a", "a", "b">>
    /\ results[1].out = "true"

(***************************************************************************)
(* X+ and XX*                                                              *)
(***************************************************************************)
MaxBodyLen == 2

\* Quantifiable terms without back-reference: atoms, groups, nested groups.
PlusTerms ==
    StarAtoms
    \cup {<<"(", "a", "|", "b", ")">>, <<"(", "a", "b", "|", "b", ")">>}
    \cup {<<"(">> \o B \o <<")">> : B \in SeqsUpTo({"a", "b", "|"}, MaxBodyLen)}
    \cup {<<"(", "(">> \o B \o <<")", "b", ")">> : B \in SeqsUpTo({"a", "|"}, MaxBodyLen)}

InitPlus ==
    InitWith({<<(X \o <<"+">>), (X \o X \o <<"*">>)>> : X \in PlusTerms}, Texts)

SpecPlus == InitPlus /\ [][Next]_vars

\* C4: X+ and XX* give the same result on every text.
C4_PlusEqualsOneThenStar == Done => results[1] = results[2]

\* A group with an alternation, whose copies get different group numbers in
\* XX*, matched by both patterns.
C4_Witness ==
    /\ Done
    /\ jobs[1] = <<"(", "a", "|", "b", ")", "+">>
    /\ text = <<TwoByteLetter, "b", "a">>
    /\ compile(jobs[1]).block # compile(jobs[2]).block
    /\ results[1].out = "true"
    /\ results[2].out = "true"

(***************************************************************************)
(* [S] and [^S]                                                            *)
(***************************************************************************)
MaxClassLen == 3

\* Class members as written: literals, a range, '-', a non-leading '^', a
\* multi-byte character.
ClassAlphabet == {"a", "c", "-", "^", TwoByteLetter}

ClassTexts == {<<ch>> : ch \in {"a", "b", "c", "-", "^", TwoByteLetter, TwoByteSign}}

\* The written member lists: a leading '^' is the negation mark, not a member.
ClassBodies == {S \in SeqsUpTo(ClassAlphabet, MaxClassLen) : S = <<>> \/ S[1] # "^"}

InitClass ==
    InitWith({<<(<<"[", "^">> \o S \o <<"]">>), (<<"[">> \o S \o <<"]">>)>> : S \in ClassBodies},
             ClassTexts)

SpecClass == InitClass /\ [][Next]_vars

\* C5: [^S] accepts a character exactly when [S] rejects it, in
\* Inst::is_match and in the VM (the result of matching the one-character text).
C5_NegatedClassIsComplement ==
    Done =>
        LET neg == compile(jobs[1]).block[1]
            pos == compile(jobs[2]).block[1]
            ch == text[1]
        IN  /\ neg.op = "CharClass" /\ pos.op = "CharClass"
            /\ Inst_is_match(neg, ch) = "true" <=> Inst_is_match(pos, ch) = "false"
            /\ results[1].out = "true" <=> results[2].out = "false"
            /\ results[1].out = Inst_is_match(neg, ch)
            /\ results[2].out = Inst_is_match(pos, ch)

\* [^a-c] rejects 'b' (inside the range) and [a-c] accepts it.
C5_Witness ==
    /\ Done
    /\ jobs[2] = <<"[", "a", "-", "c", "]">>
    /\ text = <<"b">>
    /\ results[1].out = "false"
    /\ results[2].out = "true"

(***************************************************************************)
(* (X)Y\1                                                                  *)
(***************************************************************************)
\* Group bodies X and middles Y without back-reference.
RefBodies == {<<"a">>, <<"a", "b">>, <<".">>}

RefMiddles == {<<>>, <<"b">>}

InitRef ==
    InitWith({<<(<<"(">> \o X \o <<")">> \o Y \o <<"\\", "1">>)>> : X \in RefBodies, Y \in RefMiddles},
             Texts)

SpecRef == InitRef /\ [][Next]_vars

\* The position of the first ')' of a pattern.
CloseAt(p) == CHOOSE i \in 1..Len(p) : p[i] = ")" /\ \A j \in 1..(i - 1) : p[j] # ")"

\* x is a text the body X (a literal or the wildcard) matches.
BodyMatches(X, x) == IF X = <<".">> THEN Len(x) = 1 ELSE x = X

\* t contains x Y x for some x that X matches.
ContainsRepeat(X, Y, t) ==
    \E i \in 0..Len(t) : \E n \in 0..(Len(t) - i) :
        LET x == SubSeq(t, i + 1, i + n)
        IN  BodyMatches(X, x) /\ Occurs(x \o Y \o x, t)

\* A call of VM::run is about to execute Ref(n) with group n closed.
AtClosedRef ==
    /\ phase = "run"
    /\ ret = "none"
    /\ stack # <<>>
    /\ Len(stack) < MaxDepth
    /\ Top.st = "enter"
    /\ Top.pc >= 0 /\ Top.pc < Len(prog)
    /\ prog[Top.pc + 1].op = "Ref"
    /\ prog[Top.pc + 1].x <= Len(capatured)
    /\ capatured[prog[Top.pc + 1].x][2] # 0
    /\ SliceOk(text_cursor, capatured[prog[Top.pc + 1].x][1], capatured[prog[Top.pc + 1].x][2])
    /\ SliceOk(text_cursor, Top.cursor, ByteLen(text_cursor))

\* What the step at a closed Ref has to do: fail when the text at the cursor
\* does not begin with the captured substring, otherwise continue at pc + 1
\* immediately after the repeated substring.
RefStepRight ==
    LET n == prog[Top.pc + 1].x
        group == Slice(text_cursor, capatured[n][1], capatured[n][2])
        rest == Slice(text_cursor, Top.cursor, ByteLen(text_cursor))
    IN  IF starts_with(rest, group)
        THEN /\ phase' = "run"
             /\ Len(stack') = Len(stack) + 1
             /\ stack'[Len(stack')] = Frame(Top.pc + 1, Top.cursor + ByteLen(group))
        ELSE phase' = "run" /\ ret' = "false"

RefResultRight ==
    Done =>
        LET p == jobs[1]
            X == SubSeq(p, 2, CloseAt(p) - 1)
            Y == SubSeq(p, CloseAt(p) + 1, Len(p) - 2)
        IN  /\ results[1].out \in {"true", "false"}
            /\ results[1].out = "true" <=> ContainsRepeat(X, Y, text)

\* C6: (X)Y\1 matches exactly the texts that contain x Y x, with x the text
\* group 1 captured; Ref succeeds exactly when the text at the cursor begins
\* with the captured substring, and matching continues immediately after it.
C6_BackReferenceRepeatsCapture == [][AtClosedRef => RefStepRight]_vars /\ []RefResultRight

\* The results alone (the first half of C6).
C6_ResultOnly == RefResultRight

\* Ref is executed with its group closed on a multi-byte capture.
C6_Witness == AtClosedRef /\ text = <<TwoByteLetter, TwoByteLetter>> /\ Top.cursor = 2

(***************************************************************************)
(* Every program on every text                                             *)
(***************************************************************************)
MaxVMPatLen == 5

VMAlphabet == {"a", "(", ")", "\\", "1"}

VMTexts == SeqsUpTo({"a", TwoByteLetter}, 2)

InitVM == InitWith({<<p>> : p \in SeqsUpTo(VMAlphabet, MaxVMPatLen)}, VMTexts)

SpecVM == InitVM /\ [][Next]_vars

\* C10: on a compiled program the VM returns true or false and never panics.
C10_RunNeverPanics == \A i \in 1..Len(results) : results[i].out # "panic"

(***************************************************************************)
(* compile alone                                                           *)
(***************************************************************************)
NextCompile == Compile

MaxGroupPatLen == 5

GroupAlphabet == {"(", ")", "a", "|", "*", "+"}

InitGroups == InitWith({<<p>> : p \in SeqsUpTo(GroupAlphabet, MaxGroupPatLen)}, {<<>>})

SpecGroups == InitGroups /\ [][NextCompile]_vars

IsMarker(inst) == inst.op \in {"GroupBegin", "GroupEnd"}

\* The group markers of a program, in program order.
Markers(instrs) == SelectSeq(instrs, IsMarker)

RECURSIVE ScanParens(_, _, _)
\* The markers the parentheses of a pattern stand for: the k-th '(' is
\* GroupBegin(k), and a ')' is the GroupEnd of the innermost open group.
ScanParens(chars, next, open) ==
    IF chars = <<>> THEN <<>>
    ELSE IF Head(chars) = "("
    THEN <<InstGroupBegin(next)>> \o ScanParens(Tail(chars), next + 1, Append(open, next))
    ELSE IF Head(chars) = ")" /\ open # <<>>
    THEN <<InstGroupEnd(open[Len(open)])>>
         \o ScanParens(Tail(chars), next, SubSeq(open, 1, Len(open) - 1))
    ELSE ScanParens(Tail(chars), next, open)

RECURSIVE WellNested(_, _)
\* Every GroupEnd closes the innermost open GroupBegin, and none stays open.
WellNested(markers, open) ==
    IF markers = <<>> THEN open = <<>>
    ELSE IF Head(markers).op = "GroupBegin"
    THEN WellNested(Tail(markers), Append(open, Head(markers).x))
    ELSE /\ open # <<>>
         /\ open[Len(open)] = Head(markers).x
         /\ WellNested(Tail(markers), SubSeq(open, 1, Len(open) - 1))

RECURSIVE FirstBegins(_, _)
\* The numbers of the GroupBegin markers in order of first appearance.
FirstBegins(markers, seen) ==
    IF markers = <<>> THEN <<>>
    ELSE IF Head(markers).op = "GroupBegin" /\ Head(markers).x \notin seen
    THEN <<Head(markers).x>> \o FirstBegins(Tail(markers), seen \cup {Head(markers).x})
    ELSE FirstBegins(Tail(markers), seen)

Compiled == phase = "dispatch"

\* C7: the k-th '(' is GroupBegin(k), its ')' is GroupEnd(k), and an outer
\* group closes after the groups opened inside it.  ('+' copies a group's
\* code; without '+' the markers are exactly those the parentheses spell.)
C7_GroupsNumberedInOrder ==
    Compiled =>
        LET m == Markers(prog)
            n == Len(SelectSeq(jobs[1], LAMBDA ch : ch = "("))
        IN  /\ WellNested(m, <<>>)
            /\ FirstBegins(m, {}) = [k \in 1..n |-> k]
            /\ (\A i \in 1..Len(jobs[1]) : jobs[1][i] # "+") => m = ScanParens(jobs[1], 1, <<>>)

\* A group nested in a group: the outer one is 1, the inner one 2.
C7_Witness ==
    /\ Compiled
    /\ jobs[1] = <<"(", "(", "a", ")", ")">>
    /\ Markers(prog) = <<InstGroupBegin(1), InstGroupBegin(2), InstGroupEnd(2), InstGroupEnd(1)>>

MaxErrPatLen == 4

ErrAlphabet == {"a", "(", ")", "[", "]", "$", "\\", "!", "*", "|"}

InitErrors == InitWith({<<p>> : p \in SeqsUpTo(ErrAlphabet, MaxErrPatLen)}, {<<>>})

SpecErrors == InitErrors /\ [][NextCompile]_vars

\* A prefix that holds no defect of its own: it compiles, or all that is
\* wrong with it is a group still open at its end; and it holds no '$'.
SoundPrefix(P) ==
    /\ \A i \in 1..Len(P) : P[i] # "$"
    /\ LET r == compile(P)
       IN  r.kind = "ok" \/ (r.kind = "err" /\ r.err = "UnclosedGroup")

\* p is a sound prefix, a '[' and class members with no ']' (and no escape).
IsUnclosedClass(p) ==
    \E i \in 1..Len(p) :
        /\ p[i] = "["
        /\ SoundPrefix(SubSeq(p, 1, i - 1))
        /\ \A j \in (i + 1)..Len(p) : p[j] \notin {"]", "\\"}

\* p is a sound prefix, a '$' and at least one more character.
IsDollarBeforeEnd(p) ==
    \E i \in 1..(Len(p) - 1) : p[i] = "$" /\ SoundPrefix(SubSeq(p, 1, i - 1))

\* p is a sound prefix, a '(' and a well-formed group body with no ')' for it.
IsUnclosedGroup(p) ==
    \E i \in 1..Len(p) :
        /\ p[i] = "("
        /\ SoundPrefix(SubSeq(p, 1, i - 1))
        /\ compile(<<"(">> \o DropFirst(p, i) \o <<")">>).kind = "ok"

CompileFailed == phase = "done" /\ Len(results) = 1

\* C8: an unclosed '[' yields UnclosedCharClass, a '$' before the end of the
\* pattern yields MisplacedAnchor, an unclosed '(' yields UnclosedGroup.
C8_DefectsMapToTheirError ==
    /\ (phase # "compile" /\ IsUnclosedClass(jobs[1])) =>
           CompileFailed /\ results[1].out = "UnclosedCharClass"
    /\ (phase # "compile" /\ IsDollarBeforeEnd(jobs[1])) =>
           CompileFailed /\ results[1].out = "MisplacedAnchor"
    /\ (phase # "compile" /\ IsUnclosedGroup(jobs[1])) =>
           CompileFailed /\ results[1].out = "UnclosedGroup"

\* a$a: the '$' is followed by another character.
C8_Witness ==
    /\ CompileFailed
    /\ jobs[1] = <<"a", "$", "a">>
    /\ results[1].out = "MisplacedAnchor"

\* C9: compile returns a program or a ParseError for every pattern; it never
\* aborts, and a failed compilation hands out no program.
C9_CompileNeverAborts ==
    /\ \A i \in 1..Len(results) : results[i].out # "compile_panic"
    /\ CompileFailed => prog = <<>>

(***************************************************************************)
(* The cursor of a run                                                     *)
(***************************************************************************)
\* Every active call of VM::run has its cursor on a character boundary of
\* the text the run was started on.
CursorsOnBoundary == \A i \in 1..Len(stack) : IsBoundary(text_cursor, stack[i].cursor)

\* No instruction of the program is a Ref.
NoRef == \A i \in 1..Len(prog) : prog[i].op # "Ref"

\* C11: during a run started at a character boundary the cursor is always a
\* byte offset in 0..len(text) on a character boundary, whatever instruction
\* advanced it, Ref included.
C11_CursorOnCharBoundary == phase = "run" => CursorsOnBoundary

\* The same for programs without Ref.
C11_WithoutRef == (phase = "run" /\ NoRef) => CursorsOnBoundary

\* A Ref has matched a two-byte capture and the run continues after it.
C11_Witness ==
    /\ phase = "run"
    /\ text = <<TwoByteLetter, TwoByteLetter>>
    /\ text_cursor = text
    /\ stack # <<>>
    /\ Top.pc > 0
    /\ prog[Top.pc].op = "Ref"
    /\ Top.st = "enter"

(***************************************************************************)
(* Patterns that match the empty string                                    *)
(***************************************************************************)
\* The empty pattern, a*, a?, $, (a|) and (a)*: each matches the empty string.
NullablePatterns ==
    {<<>>, <<"a", "*">>, <<"a", "?">>, <<"$">>, <<"(", "a", "|", ")">>, <<"(", "a", ")", "*">>}

InitNullable == InitWith({<<p>> : p \in NullablePatterns}, Texts)

SpecNullable == InitNullable /\ [][Next]_vars

\* C12: the search tries every character-start offset from 0 to len(text),
\* the end of the text included, so a pattern that can match the empty
\* string matches every text, the empty text too.
C12_NullableMatchesEveryText == Done => results[1].out = "true"

\* The same where offset 0 of a non-empty text already succeeds.
C12_NullableOnNonEmptyText ==
    (Done /\ text # <<>> /\ jobs[1] # <<"$">>) => results[1].out = "true"

\* is_match has run out of text without a successful run.
C12_Witness ==
    /\ Done
    /\ jobs[1] = <<"a", "*">>
    /\ text = <<>>
    /\ Len(results) = 1

(***************************************************************************)
(* VM::run on a program written by hand (vm.rs, tests::test_backref2)      *)
(***************************************************************************)
\* The instruction vector of test_backref2.
Backref2Instrs ==
    <<InstGroupBegin(1),
      InstSplit(2, 6),
      InstChar("f"), InstChar("o"), InstChar("o"),
      InstJump(9),
      InstChar("b"), InstChar("a"), InstChar("r"),
      InstGroupEnd(1),
      InstChar("-"),
      InstRef(1),
      InstDigit,
      InstMatch>>

Foo == <<"f", "o", "o">>

Bar == <<"b", "a", "r">>

\* The words of the test's inputs and their tails.
Backref2Words == {Foo, Bar, Tail(Foo), Tail(Bar), Tail(Tail(Foo)), Tail(Tail(Bar))}

\* The inputs of the test, "foo-foo8", "bar-bar8" and "foo-bar8", among the
\* texts A-B8.
Backref2Texts == {A \o <<"-">> \o B \o <<"8">> : A \in Backref2Words, B \in Backref2Words}

\* VM::new(&instrs) and the call vm.run(0, &text, 0).
InitBackref2 ==
    /\ jobs = <<>>
    /\ text \in Backref2Texts
    /\ cur = 1
    /\ phase = "run"
    /\ prog = Backref2Instrs
    /\ text_cursor = text
    /\ stack = <<Frame(0, 0)>>
    /\ ret = "none"
    /\ capatured = <<>>
    /\ results = <<>>

\* The call vm.run(0, &text, 0) returned to the test.
RunReturned ==
    /\ phase = "run"
    /\ ret # "none"
    /\ stack = <<>>
    /\ Finish(ret, "")
    /\ UNCHANGED <<jobs, text, prog, text_cursor>>

NextBackref2 == VMStep \/ VMReturn \/ RunReturned

SpecBackref2 == InitBackref2 /\ [][NextBackref2]_vars

\* C13: Jump and Split operands are absolute instruction indices, so the
\* program of test_backref2 accepts "foo-foo8" and "bar-bar8" and rejects
\* every other text A-B8, "foo-bar8" among them.
C13_Backref2WithAbsoluteTargets ==
    Done =>
        /\ results[1].out \in {"true", "false"}
        /\ results[1].out = "true" <=>
               text \in {Foo \o <<"-">> \o Foo \o <<"8">>, Bar \o <<"-">> \o Bar \o <<"8">>}

\* The run on "foo-foo8" has ended.
C13_Witness == Done /\ text = Foo \o <<"-">> \o Foo \o <<"8">> /\ Len(results) = 1

(***************************************************************************)
(* Jump and Split targets of compiled programs                             *)
(***************************************************************************)
\* The largest number written in a '{' quantifier.
MaxCount == 2

\* The decimal digit of a number below ten.
Digit(n) == AsciiOrder[n + 1]

\* The quantifiers: none, * + ?, {m}, {m,} and {m,n} with m <= n.
Quantifiers ==
    {<<>>, <<"*">>, <<"+">>, <<"?">>}
    \cup {<<"{", Digit(m), "}">> : m \in 0..MaxCount}
    \cup {<<"{", Digit(m), ",", "}">> : m \in 0..MaxCount}
    \cup {<<"{", Digit(m), ",", Digit(n), "}">> : m \in 0..MaxCount, n \in 0..MaxCount}

\* Groups with two alternatives, one of them possibly empty.
SmallAtoms == {<<"a">>, <<"(", "a", "|", ")">>}

\* Atoms: a literal, groups, an empty group, alternations with an empty or
\* several branches, a quantifier inside a group.
Atoms ==
    SmallAtoms
    \cup {<<"(", "a", ")">>, <<"(", ")">>, <<"(", "|", "a", ")">>, <<"(", "a", "|", "b", ")">>,
          <<"(", "a", "*", ")">>, <<"(", "a", "|", "b", "|", "c", ")">>}

QuantTerms == {A \o Q : A \in Atoms, Q \in Quantifiers}

SmallTerms == {A \o Q : A \in SmallAtoms, Q \in Quantifiers}

\* A term, a quantified group around a term, two terms in a row, a quantified
\* alternation of two terms.
TargetPatterns ==
    QuantTerms
    \cup {<<"(">> \o T \o <<")">> \o Q : T \in QuantTerms, Q \in Quantifiers}
    \cup {T \o U : T \in QuantTerms, U \in SmallTerms}
    \cup {<<"(">> \o T \o <<"|">> \o U \o <<")">> \o Q :
              T \in SmallTerms, U \in SmallTerms, Q \in Quantifiers}

InitTargets == InitWith({<<p>> : p \in TargetPatterns}, {<<>>})

SpecTargets == InitTargets /\ [][NextCompile]_vars

\* pc is an index of the program instrs.
InProgram(instrs, pc) == pc \in 0..(Len(instrs) - 1)

\* Every Jump and Split of instrs leads, through VM::jump_by, to an
\* instruction of instrs.
TargetsInRange(instrs) ==
    \A i \in 1..Len(instrs) :
        /\ instrs[i].op = "Jump" => InProgram(instrs, jump_by(i - 1, instrs[i].x))
        /\ instrs[i].op = "Split" =>
               /\ InProgram(instrs, jump_by(i - 1, instrs[i].x))
               /\ InProgram(instrs, jump_by(i - 1, instrs[i].y))

\* C14: in every program compile returns, each Jump and Split operand,
\* resolved the way the VM resolves it, is an index of the program.
C14_TargetsInRange == Compiled => TargetsInRange(prog)

\* A quantified alternation with an empty branch holding a {m,n} copy: the
\* program has forward jumps, backward jumps and splits.
C14_Witness ==
    /\ Compiled
    /\ jobs[1] = <<"(", "a", "{", "1", ",", "2", "}", "|", "(", "a", "|", ")", ")", "*">>
    /\ \E i \in 1..Len(prog) : prog[i].op = "Jump" /\ prog[i].x < 0
    /\ \E i \in 1..Len(prog) : prog[i].op = "Jump" /\ prog[i].x > 0
    /\ \E i \in 1..Len(prog) : prog[i].op = "Split"

(***************************************************************************)
(* X{m}, X{m,} and X{m,n}                                                  *)
(***************************************************************************)
MaxRepTextLen == 4

\* The repeated terms: a literal, the wildcard, a class, a group of two
\* literals, a group of two alternatives.
RepTerms ==
    {<<"a">>, <<".">>, <<"[", "a", "b", "]">>, <<"(", "a", "b", ")">>, <<"(", "a", "|", "b", ")">>}

\* {m}, {m,} and {m,n} with m <= n.
Braces_mn ==
    {<<"{", Digit(m), "}">> : m \in 0..MaxCount}
    \cup {<<"{", Digit(m), ",", "}">> : m \in 0..MaxCount}
    \cup {<<"{", Digit(b[1]), ",", Digit(b[2]), "}">> :
              b \in {c \in (0..MaxCount) \X (0..MaxCount) : c[1] <= c[2]}}

\* ^X{..}$ : the whole text has to be the repetitions of X.
InitRepeat ==
    InitWith({<<(<<"^">> \o X \o Q \o <<"$">>)>> : X \in RepTerms, Q \in Braces_mn},
             SeqsUpTo(LitAlphabet, MaxRepTextLen))

SpecRepeat == InitRepeat /\ [][Next]_vars

\* s is one match of the term X.
MatchesOnce(X, s) ==
    CASE X = <<"a">> -> s = <<"a">>
      [] X = <<".">> -> Len(s) = 1
      [] X = <<"[", "a", "b", "]">> -> Len(s) = 1 /\ s[1] \in {"a", "b"}
      [] X = <<"(", "a", "b", ")">> -> s = <<"a", "b">>
      [] X = <<"(", "a", "|", "b", ")">> -> s \in {<<"a">>, <<"b">>}

RECURSIVE MatchesTimes(_, _, _)
\* s is k matches of X, one after the other.
MatchesTimes(X, s, k) ==
    IF k = 0 THEN s = <<>>
    ELSE \E i \in 1..Len(s) :
             MatchesOnce(X, SubSeq(s, 1, i)) /\ MatchesTimes(X, DropFirst(s, i), k - 1)

\* The position of the '{' of a pattern.
BraceAt(p) == CHOOSE i \in 1..Len(p) : p[i] = "{"

\* The bounds a quantifier {m}, {m,} or {m,n} spells, as <<m, n>>; the n of
\* {m,} is bound, which no repetition count on the text exceeds.
BoundsOf(q, bound) ==
    LET m == OrdOf(q[2]) - 1
    IN  CASE Len(q) = 3 -> <<m, m>>
          [] Len(q) = 4 -> <<m, bound>>
          [] Len(q) = 5 -> <<m, OrdOf(q[4]) - 1>>

\* The text is k matches of X for some k the quantifier allows.
RepeatHolds ==
    LET p == jobs[1]
        X == SubSeq(p, 2, BraceAt(p) - 1)
        b == BoundsOf(SubSeq(p, BraceAt(p), Len(p) - 1), Len(text) + MaxCount)
    IN  /\ results[1].out \in {"true", "false"}
        /\ results[1].out = "true" <=> \E k \in b[1]..b[2] : MatchesTimes(X, text, k)

\* C15: X{m,n} matches k consecutive matches of X exactly for m <= k <= n,
\* X{m} exactly m of them, X{m,} any k >= m.
C15_BracesCountRepetitions == Done => RepeatHolds

\* (ab){1,2} on "abab": the optional second copy is taken.
C15_Witness ==
    /\ Done
    /\ jobs[1] = <<"^", "(", "a", "b", ")", "{", "1", ",", "2", "}", "$">>
    /\ text = <<"a", "b", "a", "b">>
    /\ results[1].out = "true"

(***************************************************************************)
(* Malformed '{' quantifiers                                               *)
(***************************************************************************)
MaxQuantBodyLen == 4

QuantBodyAlphabet == {"1", "2", ",", "a"}

\* a{body} and a{body with the closing brace missing.
InitQuant ==
    InitWith({<<(<<"a", "{">> \o B \o E)>> :
                  B \in SeqsUpTo(QuantBodyAlphabet, MaxQuantBodyLen), E \in {<<>>, <<"}">>}},
             {<<>>})

SpecQuant == InitQuant /\ [][NextCompile]_vars

\* s is a decimal number.
IsNumber(s) == s # <<>> /\ \A i \in 1..Len(s) : s[i] \in Digits

\* body is m, or m followed by a comma, or m,n with m <= n.
WellFormedBody(body) ==
    \/ IsNumber(body)
    \/ \E i \in 1..Len(body) :
           /\ body[i] = ","
           /\ IsNumber(SubSeq(body, 1, i - 1))
           /\ \/ i = Len(body)
              \/ /\ IsNumber(DropFirst(body, i))
                 /\ DecimalValue(SubSeq(body, 1, i - 1), 0) <= DecimalValue(DropFirst(body, i), 0)

\* The quantifier of a{...: closed by '}' around a well-formed body.
WellFormedQuantifier(p) == p[Len(p)] = "}" /\ WellFormedBody(SubSeq(p, 3, Len(p) - 1))

\* The number of commas in a pattern.
Commas(p) == Len(SelectSeq(p, LAMBDA ch : ch = ","))

\* C16: every '{' quantifier that is not {m}, {m,} or {m,n} with m <= n makes
\* compile return InvalidQuantifier.
C16_MalformedBracesRejected ==
    (phase # "compile" /\ ~WellFormedQuantifier(jobs[1])) =>
        CompileFailed /\ results[1].out = "InvalidQuantifier"

\* The same for the malformed quantifiers with at most one comma.
C16_AtMostOneComma ==
    (phase # "compile" /\ ~WellFormedQuantifier(jobs[1]) /\ Commas(jobs[1]) <= 1) =>
        CompileFailed /\ results[1].out = "InvalidQuantifier"

\* a{2,1}: the lower bound exceeds the upper one.
C16_Witness ==
    /\ CompileFailed
    /\ jobs[1] = <<"a", "{", "2", ",", "1", "}">>
    /\ results[1].out = "InvalidQuantifier"

(***************************************************************************)
(* Escapes outside a character class                                       *)
(***************************************************************************)
MaxEscTailLen == 2

EscAlphabet == {"d", "w", "\\", "0", "1", "9", "a", "x", ".", "(", TwoByteLetter}

\* A backslash, at the start of the pattern or after a literal, and what
\* follows it.
InitEscapes ==
    InitWith({<<(Pre \o <<"\\">> \o T)>> :
                  Pre \in {<<>>, <<"a">>}, T \in SeqsUpTo(EscAlphabet, MaxEscTailLen)},
             {<<>>})

SpecEscapes == InitEscapes /\ [][NextCompile]_vars

\* The position of the first backslash of a pattern.
EscapeAt(p) == CHOOSE i \in 1..Len(p) : p[i] = "\\" /\ \A j \in 1..(i - 1) : p[j] # "\\"

\* The character after the first backslash, None at the end of the pattern.
Escaped(p) == IF Len(p) > EscapeAt(p) THEN p[EscapeAt(p) + 1] ELSE None

\* The instruction \d, \w and \1..\9 stand for.
EscapeInst(e) ==
    CASE e = "d" -> InstDigit
      [] e = "w" -> InstMetaChar
      [] OTHER -> InstRef(CHOOSE n \in 1..9 : Digit(n) = e)

\* The escape is compiled to the one instruction inst: it is the instruction
\* at the escape's place in every program compile returns, and the program
\* is returned when the pattern ends with the escape.
EscapeCompilesTo(inst) ==
    LET p == jobs[1]
    IN  /\ Compiled => prog[EscapeAt(p)] = inst
        /\ Len(p) = EscapeAt(p) + 1 => Compiled /\ Len(prog) = EscapeAt(p) + 1

EscapeFailsWith(err, arg) ==
    CompileFailed /\ results[1].out = err /\ results[1].arg = arg

\* \d, \w and \1..\9 compile to Digit, MetaChar and Ref(n); a backslash at
\* the end of the pattern is IncompletedEscape.
KnownEscapesRight ==
    /\ Escaped(jobs[1]) \in {"d", "w"} \cup (Digits \ {"0"}) =>
           EscapeCompilesTo(EscapeInst(Escaped(jobs[1])))
    /\ Escaped(jobs[1]) = None => EscapeFailsWith("IncompletedEscape", "")

\* C17: \d, \w and \1..\9 compile to the single instruction Digit, MetaChar
\* and Ref(n); a backslash followed by any other character is UnknownEscape
\* carrying that character; a backslash ending the pattern is
\* IncompletedEscape.
C17_EscapesAsClaimed ==
    phase # "compile" =>
        /\ KnownEscapesRight
        /\ Escaped(jobs[1]) \notin {None, "d", "w"} \cup (Digits \ {"0"}) =>
               EscapeFailsWith("UnknownEscape", Escaped(jobs[1]))

\* C17 amended: as C17, but a backslash followed by a backslash compiles to
\* the single instruction Char('\'), and UnknownEscape is returned for every
\* character other than d, w, 1..9 and the backslash.
C17_EscapesWithEscapedBackslash ==
    phase # "compile" =>
        /\ KnownEscapesRight
        /\ Escaped(jobs[1]) = "\\" => EscapeCompilesTo(InstChar("\\"))
        /\ Escaped(jobs[1]) \notin {None, "d", "w", "\\"} \cup (Digits \ {"0"}) =>
               EscapeFailsWith("UnknownEscape", Escaped(jobs[1]))

\* a\0: the digit 0 is no back-reference.
C17_Witness ==
    /\ jobs[1] = <<"a", "\\", "0">>
    /\ EscapeFailsWith("UnknownEscape", "0")

(***************************************************************************)
(* start '-' end inside a character class                                  *)
(***************************************************************************)
\* Endpoints of every kind: digits, lower case, upper case, signs, a
\* non-ASCII letter.
RangeEnds == {"0", "5", "9", "a", "c", "z", "A", "C", "Z", "!", "_", TwoByteLetter}

\* [start-end]
InitRanges == InitWith({<<<<"[", s, "-", e, "]">>>> : s \in RangeEnds, e \in RangeEnds}, {<<>>})

SpecRanges == InitRanges /\ [][NextCompile]_vars

\* start and end are ASCII alphanumerics of the same kind, in order.
SameKindInOrder(start, end) ==
    /\ \/ start \in Digits /\ end \in Digits
       \/ start \in Lower /\ end \in Lower
       \/ start \in Upper /\ end \in Upper
    /\ OrdOf(start) <= OrdOf(end)

\* The set the class [start-end] has to have.
RangeSet(start, end) ==
    IF SameKindInOrder(start, end)
    THEN {c \in Digits \cup Lower \cup Upper : OrdOf(start) <= OrdOf(c) /\ OrdOf(c) <= OrdOf(end)}
    ELSE {start, "-", end}

\* The class compiles to one CharClass with exactly the set claimed.
RangeHolds ==
    /\ Compiled
    /\ prog = <<InstCharClass(FALSE, RangeSet(jobs[1][2], jobs[1][4])), InstMatch>>

\* C18: [start-end] is the characters start..end when both endpoints are
\* ASCII alphanumerics of the same kind and start <= end, and the three
\* characters start, '-' and end otherwise: nothing written is dropped.
C18_RangeOrThreeCharacters == phase # "compile" => RangeHolds

\* The same where the character after the '-' is an ASCII alphanumeric, or
\* the one before it is none.
C18_AlphanumericEnd ==
    (/\ phase # "compile"
     /\ is_ascii_alphanumeric(jobs[1][4]) \/ ~is_ascii_alphanumeric(jobs[1][2])) => RangeHolds

\* [a-!]: an alphanumeric start, a '-' and an end that is no alphanumeric.
C18_Witness ==
    /\ Compiled
    /\ jobs[1] = <<"[", "a", "-", "!", "]">>
    /\ prog[1].op = "CharClass"

(***************************************************************************)
(* Groups of alternatives                                                  *)
(***************************************************************************)
\* The alternatives: non-empty literals.
Alternatives == {<<"a">>, <<"b">>, <<"a", "b">>, <<"b", "a">>}

Alt2 == {A \o <<"|">> \o B : A \in Alternatives, B \in Alternatives}

Alt3 == {A \o <<"|">> \o B : A \in Alt2, B \in Alternatives}

\* ^(A1|A2)$ and ^(A1|A2|A3)$, and the same with a back-reference to the
\* group before the '$'.
InitAlternation ==
    InitWith({<<(<<"^", "(">> \o A \o <<")">> \o R \o <<"$">>)>> :
                  A \in Alt2 \cup Alt3, R \in {<<>>, <<"\\", "1">>}},
             SeqsUpTo(LitAlphabet, MaxRepTextLen))

SpecAlternation == InitAlternation /\ [][Next]_vars

RECURSIVE SplitBars(_, _)
\* The alternatives a group body spells: its pieces between the '|'.
SplitBars(s, piece) ==
    IF s = <<>> THEN {piece}
    ELSE IF Head(s) = "|" THEN {piece} \cup SplitBars(Tail(s), <<>>)
    ELSE SplitBars(Tail(s), Append(piece, Head(s)))

\* The alternatives of the group of a pattern ^(...)...$.
AlternativesOf(p) == SplitBars(SubSeq(p, 3, CloseAt(p) - 1), <<>>)

\* The number of alternatives written in a pattern.
AlternativeCount(p) == Len(SelectSeq(p, LAMBDA ch : ch = "|")) + 1

\* The group matches exactly its alternatives, and \1 repeats the text of
\* the alternative that matched.
AlternationHolds ==
    LET p == jobs[1]
    IN  /\ results[1].out \in {"true", "false"}
        /\ results[1].out = "true" <=>
               \E A \in AlternativesOf(p) :
                   text = IF p[Len(p) - 1] = "1" THEN A \o A ELSE A

\* C19: a group of k >= 2 alternatives matches exactly when one of its
\* alternatives matches, and its capture is the text of that alternative;
\* for k = 2 and for k >= 3.
C19_EveryAlternativeMatches == Done => AlternationHolds

\* The same for groups of two alternatives.
C19_TwoAlternatives == (Done /\ AlternativeCount(jobs[1]) = 2) => AlternationHolds

\* ^(a|b|ab)$ has run on the text of its second alternative.
C19_Witness ==
    /\ Done
    /\ jobs[1] = <<"^", "(", "a", "|", "b", "|", "a", "b", ")", "$">>
    /\ text = <<"b">>
    /\ Len(results) = 1

(***************************************************************************)
(* Start inside a program                                                  *)
(***************************************************************************)
\* '^' in atom position after the first instruction: at the head of a group,
\* alone in a group, between literals.
StartPatterns ==
    {<<"(", "^">> \o L \o <<")">> : L \in Literals}
    \cup {<<"(", "^", ")">> \o L : L \in Literals}
    \cup {L \o <<"^">> \o M : L \in Literals, M \in Literals}

InitStart == InitWith({<<p>> : p \in StartPatterns}, Texts)

SpecStart == InitStart /\ [][Next]_vars

\* A call of VM::run is about to execute Start.
AtStart ==
    /\ phase = "run"
    /\ ret = "none"
    /\ stack # <<>>
    /\ Len(stack) < MaxDepth
    /\ Top.st = "enter"
    /\ Top.pc >= 0 /\ Top.pc < Len(prog)
    /\ prog[Top.pc + 1].op = "Start"

\* What the step at Start has to do: return false away from offset 0, and
\* at offset 0 go on at pc + 1 with the same offset.
StartStepRight ==
    IF Top.cursor # 0
    THEN phase' = "run" /\ stack' = Pop /\ ret' = "false"
    ELSE /\ phase' = "run"
         /\ Len(stack') = Len(stack) + 1
         /\ stack'[Len(stack')] = Frame(Top.pc + 1, Top.cursor)

\* The literal characters of a pattern, in order.
LiteralsOf(p) == SelectSeq(p, LAMBDA ch : ch \in LiteralChars)

\* A match needs the pattern's literals in the text: Start consumes nothing
\* and ends no match.
StartResultRight ==
    Done => /\ results[1].out \in {"true", "false"}
            /\ results[1].out = "true" => Occurs(LiteralsOf(jobs[1]), text)

\* C20: Start at pc and offset o returns false when o # 0 and otherwise
\* continues at pc + 1 with the same offset; it never ends the match itself.
C20_StartContinuesAtNextInstruction == [][AtStart => StartStepRight]_vars /\ []StartResultRight

\* Away from offset 0 Start returns false.
C20_StartFailsAwayFromZero ==
    [][(AtStart /\ Top.cursor # 0) => StartStepRight]_vars

\* Start is executed at offset 0 inside a group.
C20_Witness == AtStart /\ Top.cursor = 0 /\ Top.pc = 1 /\ jobs[1] = <<"(", "^", "a", ")">>

(***************************************************************************)
(* The capture table under quantified and alternated groups                *)
(***************************************************************************)
\* Groups that are executed once, more than once (under * and +), or not at
\* all (under ? and in an alternative that is not taken), with and without
\* a back-reference after them.
CapturePatterns ==
    {<<"(", "a", ")", "b">>,
     <<"(", "a", ")", "(", "b", ")">>,
     <<"(", "a", ")", "*", "b">>,
     <<"(", "a", ")", "+", "b">>,
     <<"(", "a", ")", "?", "(", "b", ")">>,
     <<"(", "a", ")", "*", "\\", "1">>,
     <<"(", "a", "|", "(", "b", ")", ")", "(", "a", ")">>,
     <<"(", "a", ")", "?", "(", "b", ")", "\\", "2">>}

InitCapture == InitWith({<<p>> : p \in CapturePatterns}, Texts)

SpecCapture == InitCapture /\ [][Next]_vars

\* A call of VM::run is about to execute the instruction op.
AtInst(op) ==
    /\ phase = "run"
    /\ ret = "none"
    /\ stack # <<>>
    /\ Len(stack) < MaxDepth
    /\ Top.st = "enter"
    /\ Top.pc >= 0 /\ Top.pc < Len(prog)
    /\ prog[Top.pc + 1].op = op

\* After the step at GroupBegin(n) at offset o, entry n starts at o.
BeginStepRight ==
    LET n == prog[Top.pc + 1].x
    IN  n <= Len(capatured') /\ capatured'[n][1] = Top.cursor

\* After the step at GroupEnd(n) at offset e, entry n ends at e.
EndStepRight ==
    LET n == prog[Top.pc + 1].x
    IN  n <= Len(capatured') /\ capatured'[n][2] = Top.cursor

\* C21: the capture table is indexed by group number: immediately after
\* GroupBegin(n) is executed at offset o the entry of group n has start o,
\* and after GroupEnd(n) at offset e that entry has end e, also when
\* GroupBegin(n) is executed more than once or a lower-numbered group was
\* not entered.
C21_TableIndexedByGroupNumber ==
    [][(AtInst("GroupBegin") => BeginStepRight) /\ (AtInst("GroupEnd") => EndStepRight)]_vars

\* The same for the first group marker a run executes.
C21_FirstGroupBegin ==
    [][(AtInst("GroupBegin") /\ capatured = <<>> /\ prog[Top.pc + 1].x = 1) => BeginStepRight]_vars

\* GroupBegin(1) is about to be executed a second time in one run.
C21_Witness ==
    /\ AtInst("GroupBegin")
    /\ prog[Top.pc + 1].x = 1
    /\ Len(capatured) = 1
    /\ Top.cursor > 0

\* The continuation of a GroupEnd has failed and is returning to it.
GroupEndFailed ==
    /\ phase = "run"
    /\ ret = "false"
    /\ stack # <<>>
    /\ prog[Top.pc + 1].op = "GroupEnd"

\* The table reports group n as closed: it has an entry with a non-zero end.
Closed(cap, n) == n <= Len(cap) /\ cap[n][2] # 0

\* C22: when the continuation at pc + 1 of GroupEnd(n) fails, the end offset
\* of group n is reset to 0 before run returns false: at the moment the
\* failure is returned group n is not reported as closed.
C22_GroupEndRollsBack ==
    [][GroupEndFailed =>
         /\ ret' = "false"
         /\ stack' = Pop
         /\ ~Closed(capatured', prog[Top.pc + 1].x)
         /\ Len(capatured') = Len(capatured)]_vars

\* The continuation of GroupEnd(1) failed after the group had closed at
\* offset 1, and the failure has been returned to the Char inside the group
\* with the group open again.
C22_Witness ==
    /\ phase = "run"
    /\ ret = "false"
    /\ stack # <<>>
    /\ Top.st = "first"
    /\ prog[Top.pc + 1].op = "Char"
    /\ Top.pc + 2 <= Len(prog)
    /\ prog[Top.pc + 2].op = "GroupEnd"
    /\ prog[Top.pc + 2].x = 1
    /\ Top.cursor = 0
    /\ capatured = <<<<0, 0>>>>

\* The outermost call of a run, which is entered with the empty table of a
\* new VM, is a Split whose first alternative has failed, and its second
\* alternative is about to start.
SecondAlternativeStarts ==
    /\ phase = "run"
    /\ ret = "none"
    /\ Len(stack) = 2
    /\ prog[stack[1].pc + 1].op = "Split"
    /\ stack[1].st = "second"
    /\ stack[2].st = "enter"

\* The outermost call of a run has returned false.
RunReturnedFalse == phase = "run" /\ stack = <<>> /\ ret = "false"

\* C23: a failed path leaves the capture table as it was when the path was
\* entered: the second alternative of a Split starts from the table the
\* Split was entered with, and a run that returns false leaves the table
\* equal to the one it started with (empty, on a new VM).
C23_FailedPathRestoresTable ==
    /\ SecondAlternativeStarts => capatured = <<>>
    /\ RunReturnedFalse => capatured = <<>>

\* What does hold: every entry a failed run leaves behind is open.
C23_FailedRunLeavesOpenEntries ==
    RunReturnedFalse => \A n \in 1..Len(capatured) : ~Closed(capatured, n)

\* The first alternative of (a)*b has executed the group and failed, and
\* the second alternative starts.
C23_Witness ==
    /\ SecondAlternativeStarts
    /\ jobs[1] = <<"(", "a", ")", "*", "b">>
    /\ text_cursor = <<"a">>

(***************************************************************************)
(* Ref before its group has closed                                         *)
(***************************************************************************)
\* A call of VM::run is about to execute Ref(n) and the table has no entry
\* n.
AtMissingRef == AtInst("Ref") /\ prog[Top.pc + 1].x > Len(capatured)

\* A call of VM::run is about to execute Ref(n) and entry n has the end
\* offset 0 of an open group.
AtOpenRef ==
    /\ AtInst("Ref")
    /\ prog[Top.pc + 1].x <= Len(capatured)
    /\ capatured[prog[Top.pc + 1].x][2] = 0

\* The step fails: the call returns false and nothing is consumed.
StepFails == phase' = "run" /\ ret' = "false" /\ stack' = Pop

\* C24: Ref(n) fails, without consuming input, when group n is open (its
\* end offset is 0) and when group n has no table entry.
C24_RefOnOpenOrMissingGroupFails == [][(AtOpenRef \/ AtMissingRef) => StepFails]_vars

\* The half that holds: Ref(n) fails when the table has no entry n.
C24_RefOnMissingGroupFails == [][AtMissingRef => StepFails]_vars

\* (\1): Ref(1) is about to be executed inside group 1, opened at offset 0.
C24_Witness ==
    /\ AtOpenRef
    /\ jobs[1] = <<"(", "\\", "1", ")">>
    /\ text = <<"a">>
    /\ capatured = <<<<0, 0>>>>

(***************************************************************************)
(* Loops whose body can match the empty string                             *)
(***************************************************************************)
\* Quantified groups with a body that cannot match the empty string, and
\* with a body that can: a nested quantifier, an optional body, an empty
\* alternative, an empty group.
LoopPatterns ==
    {<<"(", "a", ")", "*">>,
     <<"(", "a", "|", "b", ")", "*", "b">>,
     <<"(", "a", ")", "+", "b">>,
     <<"(", "a", "*", ")", "*">>,
     <<"(", "a", "?", ")", "*", "b">>,
     <<"(", "a", "*", ")", "+", "b">>,
     <<"(", "a", "|", ")", "*", "b">>,
     <<"(", ")", "*">>}

InitLoops == InitWith({<<p>> : p \in LoopPatterns}, Texts)

SpecLoops == InitLoops /\ [][Next]_vars

\* A run that never calls run(pc, text, cursor) inside the same call has
\* at most one call per instruction and offset on its stack.
DepthBound == Len(prog) * (ByteLen(text_cursor) + 1)

\* Some call of run(pc, text, cursor) is active inside the same call.
CallRepeats ==
    \E i \in 1..Len(stack) : \E j \in (i + 1)..Len(stack) :
        stack[i].pc = stack[j].pc /\ stack[i].cursor = stack[j].cursor

\* C25: on every compiled program and every text run terminates, with a
\* recursion depth bounded by a function of the text length and the
\* program, also for patterns whose quantified body can match the empty
\* string: no run exhausts the stack, and no run is deeper than one call
\* per instruction and offset.
C25_RunTerminatesWithinBound ==
    /\ \A i \in 1..Len(results) : results[i].out # "overflow"
    /\ phase = "run" => Len(stack) <= DepthBound

\* The same for runs that do not repeat a call.
C25_BoundedWithoutRepeatedCall ==
    (phase = "run" /\ ~CallRepeats) => Len(stack) <= DepthBound

\* (a*)*: the loop is entered again at the offset it was entered at.
C25_Witness ==
    /\ phase = "run"
    /\ jobs[1] = <<"(", "a", "*", ")", "*">>
    /\ text = <<"b">>
    /\ CallRepeats

====
